---- MODULE Spec2Model ----
(***************************************************************************)
(* Sales/order subsystem of mini-pos-api: the order counter, the sales,    *)
(* sales_items and receipts tables, and the requests that act on them      *)
(* (routers/sales.py -> services/sales_service.py ->                       *)
(* services/database/sales.py).  Every request is a task of its own; the   *)
(* database statements are its only suspension points, so one action is    *)
(* one statement (or one transaction boundary) of one request.             *)
(***************************************************************************)
EXTENDS Integers, Sequences, FiniteSets, TLC

\* ------------------------------------------------------------------ bounds
MaxOrders == 2      \* order numbers the counter hands out in one run
MaxRouterOrders == 1 \* order numbers handed out in a run of the router
MaxSkip == 3        \* largest skip of a get_sales call
MaxLimit == 2       \* largest limit of a get_sales call
MaxDay == 4         \* last day a call or a window bound may fall on
QuotientDigits == 5 \* decimals kept of a numeric quotient

\* --------------------------------------------------------------- constants
Seed == 10000       \* order_counter.last_number after seeding
Today == 3          \* the day on which the modelled requests are served

Procs == {"r1", "r2"}                           \* concurrently served requests
Statuses == {"pending", "paid", "cancelled"}    \* OrderStatus values

ItemA == [product_id |-> 1, quantity |-> 1, price |-> 2, cost_price |-> 1]
ItemB == [product_id |-> 2, quantity |-> 2, price |-> 3, cost_price |-> 1]
ItemNoQty == [product_id |-> 1, quantity |-> 0, price |-> 2, cost_price |-> 1]
ItemNegPrice == [product_id |-> 2, quantity |-> 1, price |-> 0 - 1, cost_price |-> 1]

\* The catalog rows of the two products on sale.
Catalog ==
    {[id |-> 1, sku_name |-> "tea", price |-> 2],
     [id |-> 2, sku_name |-> "cake", price |-> 3]}

CreateBody(u, items, st) ==
    [op |-> "create", user_id |-> u, items |-> items, currency |-> "KZT",
     payment_method |-> "cash", status |-> st, target |-> ""]

\* The bodies a client posts to /sales/create in this model: an ordinary
\* one, one with no items, two with an item outside the field constraints.
CreateInputs ==
    { CreateBody(1, <<ItemA, ItemB>>, "pending"),
      CreateBody(2, <<>>, "paid"),
      CreateBody(1, <<ItemA, ItemNoQty>>, "pending"),
      CreateBody(2, <<ItemNegPrice>>, "paid") }

\* ------------------------------------------------------------ pure helpers
\* The id built from the counter value before the increment.
OrderIdOfPrevious(n) == "ORD-" \o ToString(n - 1)

\* f"ORD-{last_number}"
OrderIdOf(n) == "ORD-" \o ToString(n)

OrderNumbers == (Seed + 1)..(Seed + MaxOrders)
OrderIds == { OrderIdOf(n) : n \in OrderNumbers }

\* The number that follows "ORD-" in an order id.
NumberOf(oid) ==
    CHOOSE n \in (Seed - 1)..(Seed + MaxOrders + 1) : "ORD-" \o ToString(n) = oid

\* The increment is lost: the counter value comes back as it was read.
StaleOrderNumber(last) == last

\* The counter is advanced by two.
OrderNumberAfterNext(last) == last + 2

\* UPDATE order_counter SET last_number = last_number + 1 RETURNING last_number
NextOrderNumber(last) == last + 1

RECURSIVE SumPriceQty(_)
SumPriceQty(items) ==
    IF items = <<>> THEN 0
    ELSE Head(items).price * Head(items).quantity + SumPriceQty(Tail(items))

RECURSIVE SumPrice(_)
SumPrice(items) ==
    IF items = <<>> THEN 0 ELSE Head(items).price + SumPrice(Tail(items))

\* The quantity is left out of the sum.
TotalAmountOfPrices(items) == SumPrice(items)

\* total_amount = sum(item.price * item.quantity for item in items)
TotalAmount(items) == SumPriceQty(items)

\* the sixth value of the sales_items INSERT: item.price * item.quantity
ItemTotal(item) == item.price * item.quantity

\* SaleItem field constraints: quantity > 0, price and cost_price >= 0
SaleItemValid(item) ==
    /\ item.quantity > 0
    /\ item.price >= 0
    /\ item.cost_price >= 0

\* items: List[SaleItem] of the create endpoint: every element is validated,
\* the list itself has no length constraint.
RequestBodyValid(items) == \A i \in 1..Len(items) : SaleItemValid(items[i])

\* result == "UPDATE 1" / result == "DELETE 1"
ExactlyOneRow(n) == n = 1

PyBool(b) == IF b THEN "True" ELSE "False"

\* ------------------------------------------------------------------- state
VARIABLES
    last_number,    \* order_counter.last_number (committed)
    sales_id_seq,   \* the serial behind sales.id
    sales,          \* committed rows of sales
    sales_items,    \* committed rows of sales_items, in insertion order
    receipts,       \* committed rows of receipts
    local_products, \* rows of local_products (the catalog)
    pc,             \* the statement each request in flight is about to run
    req,            \* the operation and arguments of each request in flight
    order_id,       \* create_sale's local order_id ("" while unbound)
    tx,             \* rows written by an open transaction, not yet committed
    seen,           \* confirm_payment's sale_details["status"]
    ret             \* the outcome of the call that completed last

db == <<last_number, sales_id_seq, sales, sales_items, receipts, local_products>>
vars == <<last_number, sales_id_seq, sales, sales_items, receipts, local_products,
          pc, req, order_id, tx, seen, ret>>

NoReq == [op |-> "none", user_id |-> 0, items |-> <<>>, currency |-> "",
          payment_method |-> "", status |-> "", target |-> ""]
NoTx == [sale |-> {}, items |-> <<>>, receipt |-> {}]

\* An outcome: the operation, how the service call ended (return, raise, or
\* reject when the body never reached the service), the value it gave, what
\* the data service had returned to it, the statement that failed, and
\* whether a committed row was changed.
Outcome(op, kind, val, dbret, stage, wrote) ==
    [op |-> op, kind |-> kind, val |-> val, dbret |-> dbret,
     stage |-> stage, wrote |-> wrote]

Init ==
    /\ last_number = Seed
    /\ sales_id_seq = 0
    /\ sales = {}
    /\ sales_items = <<>>
    /\ receipts = {}
    /\ local_products = Catalog
    /\ pc = [p \in Procs |-> "idle"]
    /\ req = [p \in Procs |-> NoReq]
    /\ order_id = [p \in Procs |-> ""]
    /\ tx = [p \in Procs |-> NoTx]
    /\ seen = [p \in Procs |-> ""]
    /\ ret = Outcome("none", "none", "", "", "", FALSE)

\* ----------------------------------------------------------- table helpers
RowsOf(S, oid) == { s \in S : s.order_id = oid }
SaleRows(oid) == RowsOf(sales, oid)
\* Only the first item row of a sale is fetched.
FirstItemRowIn(I, sid) ==
    LET rows == SelectSeq(I, LAMBDA it : it.sale_id = sid) IN
       IF rows = <<>> THEN <<>> ELSE <<rows[1]>>

ItemRowsIn(I, sid) == SelectSeq(I, LAMBDA it : it.sale_id = sid)
ItemRowsOf(sid) == ItemRowsIn(sales_items, sid)
ReceiptRows(oid) == RowsOf(receipts, oid)

\* The task of request p ends: its locals are gone.
Finish(p) ==
    /\ pc' = [pc EXCEPT ![p] = "idle"]
    /\ req' = [req EXCEPT ![p] = NoReq]
    /\ order_id' = [order_id EXCEPT ![p] = ""]
    /\ tx' = [tx EXCEPT ![p] = NoTx]
    /\ seen' = [seen EXCEPT ![p] = ""]

\* ----------------------------------------------------- POST /sales/create
\* create_payment: the body is validated into List[SaleItem] before the
\* handler runs; a body that fails validation never reaches the service.
CreateRejected(p) ==
    /\ pc[p] = "idle"
    /\ \E body \in CreateInputs :
          /\ ~RequestBodyValid(body.items)
          /\ ret' = Outcome("create", "reject", "422", "", "body", FALSE)
    /\ UNCHANGED <<db, pc, req, order_id, tx, seen>>

\* generate_order_id: a transaction of its own on a connection of its own;
\* it has committed before create_sale opens the transaction of the inserts.
GenerateOrderId(p) ==
    /\ pc[p] = "idle"
    /\ last_number < Seed + MaxOrders
    /\ \E body \in CreateInputs :
          /\ RequestBodyValid(body.items)
          /\ req' = [req EXCEPT ![p] = body]
    /\ last_number' = NextOrderNumber(last_number)
    /\ order_id' = [order_id EXCEPT ![p] = OrderIdOf(last_number')]
    /\ pc' = [pc EXCEPT ![p] = "ins_sale"]
    /\ UNCHANGED <<local_products, sales_id_seq, sales, sales_items, receipts, tx, seen, ret>>

\* The error of generate_order_id is swallowed like that of an insert.
GenerateOrderIdFailsSilently(p) ==
    /\ pc[p] = "idle"
    /\ \E body \in CreateInputs : RequestBodyValid(body.items)
    /\ ret' = Outcome("create", "return", "False", "False", "counter", FALSE)
    /\ UNCHANGED <<db, pc, req, order_id, tx, seen>>

\* generate_order_id raises: create_sale's except clause formats the still
\* unbound local order_id, so the handler raises in turn and the error
\* leaves the data service and, re-raised, the service.
GenerateOrderIdFails(p) ==
    /\ pc[p] = "idle"
    /\ \E body \in CreateInputs : RequestBodyValid(body.items)
    /\ ret' = Outcome("create", "raise", "UnboundLocalError", "", "counter", FALSE)
    /\ UNCHANGED <<db, pc, req, order_id, tx, seen>>

\* INSERT INTO sales (order_id, user_id, total_amount, currency, status);
\* created_at takes its default, the time of the insert.
SaleRow(p, id) ==
    [id |-> id, order_id |-> order_id[p], user_id |-> req[p].user_id,
     total_amount |-> TotalAmount(req[p].items),
     currency |-> req[p].currency, status |-> req[p].status,
     created_at |-> Today]

InsertSale(p) ==
    /\ pc[p] = "ins_sale"
    /\ SaleRows(order_id[p]) = {}           \* sales.order_id is UNIQUE
    /\ sales_id_seq' = sales_id_seq + 1
    /\ tx' = [tx EXCEPT ![p].sale = {SaleRow(p, sales_id_seq')}]
    /\ pc' = [pc EXCEPT ![p] =
                 IF req[p].items = <<>> THEN "ins_receipt" ELSE "ins_item"]
    /\ UNCHANGED <<local_products, last_number, sales, sales_items, receipts,
                   req, order_id, seen, ret>>

\* INSERT INTO sales_items (...) VALUES ((SELECT id FROM sales WHERE
\* order_id = $1), ...): the subselect sees the transaction's own sale row.
ItemRow(p, item) ==
    [sale_id |-> (CHOOSE s \in tx[p].sale : s.order_id = order_id[p]).id,
     product_id |-> item.product_id, quantity |-> item.quantity,
     price |-> item.price, cost_price |-> item.cost_price,
     total |-> ItemTotal(item)]

\* The loop is left after its first turn.
InsertItemFirstOnly(p) ==
    /\ pc[p] = "ins_item"
    /\ tx' = [tx EXCEPT ![p].items = Append(@, ItemRow(p, req[p].items[1]))]
    /\ pc' = [pc EXCEPT ![p] = "ins_receipt"]
    /\ UNCHANGED <<db, req, order_id, seen, ret>>

\* One turn of "for item in items".
InsertItem(p) ==
    /\ pc[p] = "ins_item"
    /\ LET i == Len(tx[p].items) + 1 IN
          /\ tx' = [tx EXCEPT ![p].items = Append(@, ItemRow(p, req[p].items[i]))]
          /\ pc' = [pc EXCEPT ![p] =
                       IF i = Len(req[p].items) THEN "ins_receipt" ELSE "ins_item"]
    /\ UNCHANGED <<db, req, order_id, seen, ret>>

\* INSERT INTO receipts (order_id, user_id, total_amount, payment_method)
ReceiptRow(p) ==
    [order_id |-> order_id[p], user_id |-> req[p].user_id,
     total_amount |-> TotalAmount(req[p].items),
     payment_method |-> req[p].payment_method]

InsertReceipt(p) ==
    /\ pc[p] = "ins_receipt"
    /\ tx' = [tx EXCEPT ![p].receipt = {ReceiptRow(p)}]
    /\ pc' = [pc EXCEPT ![p] = "commit"]
    /\ UNCHANGED <<db, req, order_id, seen, ret>>

\* Leaving "async with conn.transaction()" commits the rows of the three
\* tables together; create_sale returns order_id and the service passes it on.
CommitSale(p) ==
    /\ pc[p] = "commit"
    /\ sales' = sales \cup tx[p].sale
    /\ sales_items' = sales_items \o tx[p].items
    /\ receipts' = receipts \cup tx[p].receipt
    /\ ret' = Outcome("create", "return", order_id[p], order_id[p], "", TRUE)
    /\ Finish(p)
    /\ UNCHANGED <<local_products, last_number, sales_id_seq>>

\* The statement of the insert transaction a request is at.
StageOf(label) ==
    CASE label = "ins_sale" -> "sale"
      [] label = "ins_item" -> "item"
      [] label = "ins_receipt" -> "receipt"
      [] OTHER -> "commit"

\* What create_sale's "except Exception" clause does with the error, and
\* what SalesService.create_sale then hands to the router.
CreateSaleOnError(stage) ==
    Outcome("create", "return", "False", "False", stage, FALSE)

\* A statement of the insert transaction raises (constraint violation,
\* connection loss): the transaction rolls back, the error is logged and
\* swallowed.
CreateSaleFails(p) ==
    /\ pc[p] \in {"ins_sale", "ins_item", "ins_receipt", "commit"}
    /\ ret' = CreateSaleOnError(StageOf(pc[p]))
    /\ Finish(p)
    /\ UNCHANGED db

\* ------------------------------------------------------ update_sale_status
\* The UPDATE without its WHERE clause.
WithStatusOfAll(S, oid, st) == { [s EXCEPT !.status = st] : s \in S }

\* UPDATE sales SET status = $1 WHERE order_id = $2
WithStatus(S, oid, st) ==
    { IF s.order_id = oid THEN [s EXCEPT !.status = st] ELSE s : s \in S }

\* update_sale_status on the table S: the table afterwards and the value
\* returned; an exception leaves the table alone and returns False.
UpdateSaleStatus(S, oid, st, raises) ==
    IF raises
       THEN [sales |-> S, val |-> "False", wrote |-> FALSE]
       ELSE [sales |-> WithStatus(S, oid, st),
             val |-> PyBool(ExactlyOneRow(Cardinality(RowsOf(S, oid)))),
             wrote |-> RowsOf(S, oid) # {}]

\* ------------------------------------------- PATCH /sales/{order_id}/status
\* What SalesService.change_status returns once update_sale_status has
\* returned dbret: the awaited value is dropped.
ChangeStatusResult(dbret) == "True"

ChangeStatus(p) ==
    /\ pc[p] = "idle"
    /\ \E oid \in OrderIds, st \in Statuses, raises \in BOOLEAN :
          LET u == UpdateSaleStatus(sales, oid, st, raises) IN
             /\ sales' = u.sales
             /\ ret' = Outcome("change_status", "return",
                               ChangeStatusResult(u.val), u.val, "", u.wrote)
    /\ UNCHANGED <<local_products, last_number, sales_id_seq, sales_items, receipts,
                   pc, req, order_id, tx, seen>>

\* --------------------------------------------------------- confirm_payment
\* The early return is never taken.
NeverAlreadyPaid(st) == FALSE

\* if sale_details["status"] == "paid": return True
AlreadyPaid(st) == st = "paid"

\* A missing order is reported as a success.
NotFoundIsSuccess == "True"

\* if not sale_details: return False
ConfirmNotFound == "False"

StatusIn(S, oid) == (CHOOSE s \in RowsOf(S, oid) : TRUE).status

\* get_sale_details, then the two early returns of confirm_payment.
ConfirmRead(p) ==
    /\ pc[p] = "idle"
    /\ \E oid \in OrderIds :
          IF SaleRows(oid) = {}
             THEN /\ ret' = Outcome("confirm", "return", ConfirmNotFound, "None", "", FALSE)
                  /\ UNCHANGED <<pc, req, seen>>
             ELSE IF AlreadyPaid(StatusIn(sales, oid))
                     THEN /\ ret' = Outcome("confirm", "return", "True", "paid", "", FALSE)
                          /\ UNCHANGED <<pc, req, seen>>
                     ELSE /\ req' = [req EXCEPT ![p] =
                                        [NoReq EXCEPT !.op = "confirm", !.target = oid]]
                          /\ seen' = [seen EXCEPT ![p] = StatusIn(sales, oid)]
                          /\ pc' = [pc EXCEPT ![p] = "cp_write"]
                          /\ ret' = ret
    /\ UNCHANGED <<db, order_id, tx>>

\* success = await self.db_service.update_sale_status(order_id, "paid")
ConfirmWrite(p) ==
    /\ pc[p] = "cp_write"
    /\ \E raises \in BOOLEAN :
          LET u == UpdateSaleStatus(sales, req[p].target, "paid", raises) IN
             /\ sales' = u.sales
             /\ ret' = Outcome("confirm", "return", u.val, u.val, "", u.wrote)
    /\ Finish(p)
    /\ UNCHANGED <<local_products, last_number, sales_id_seq, sales_items, receipts>>

\* confirm_payment run on the table S with no other request in between.
ConfirmPayment(S, oid) ==
    IF RowsOf(S, oid) = {}
       THEN [sales |-> S, val |-> ConfirmNotFound, wrote |-> FALSE]
       ELSE IF AlreadyPaid(StatusIn(S, oid))
               THEN [sales |-> S, val |-> "True", wrote |-> FALSE]
               ELSE UpdateSaleStatus(S, oid, "paid", FALSE)

\* ------------------------------------------------- GET /sales/{order_id}
NoDetails == [found |-> FALSE]

SaleDetails(sale, items) ==
    [found |-> TRUE, order_id |-> sale.order_id, user_id |-> sale.user_id,
     total_amount |-> sale.total_amount, currency |-> sale.currency,
     status |-> sale.status, items |-> items]

\* get_sale_details with its two statements run back to back.
GetSaleDetails(S, I, oid) ==
    IF RowsOf(S, oid) = {}
       THEN NoDetails
       ELSE LET sale == CHOOSE s \in RowsOf(S, oid) : TRUE IN
               SaleDetails(sale, ItemRowsIn(I, sale.id))

\* ----------------------------------------------------- DELETE /sales/cancel
\* sales_items.sale_id and receipts.order_id reference sales ON DELETE CASCADE.
CascadeItems(I, ids) == SelectSeq(I, LAMBDA it : it.sale_id \notin ids)
CascadeReceipts(R, oid) == R \ RowsOf(R, oid)

\* The status-guarded variant: a paid or cancelled sale is not cancelled.
CancelSaleGuarded(S, I, R, oid, raises) ==
    LET rows == { s \in RowsOf(S, oid) : s.status = "pending" }
        v == PyBool(ExactlyOneRow(Cardinality(rows))) IN
       [sales |-> S \ rows,
        sales_items |-> CascadeItems(I, { s.id : s \in rows }),
        receipts |-> IF rows = {} THEN R ELSE CascadeReceipts(R, oid),
        val |-> v, wrote |-> rows # {}]

\* cancel_sale: one DELETE by order_id, true exactly on "DELETE 1"; any
\* exception is logged and becomes False.
CancelSaleDb(S, I, R, oid, raises) ==
    LET rows == RowsOf(S, oid)
        v == PyBool(ExactlyOneRow(Cardinality(rows))) IN
       IF raises
          THEN [sales |-> S, sales_items |-> I, receipts |-> R,
                val |-> "False", wrote |-> FALSE]
          ELSE [sales |-> S \ rows,
                sales_items |-> CascadeItems(I, { s.id : s \in rows }),
                receipts |-> CascadeReceipts(R, oid),
                val |-> v, wrote |-> rows # {}]

CancelSale(p) ==
    /\ pc[p] = "idle"
    /\ \E oid \in OrderIds, raises \in BOOLEAN :
          LET c == CancelSaleDb(sales, sales_items, receipts, oid, raises) IN
             /\ sales' = c.sales
             /\ sales_items' = c.sales_items
             /\ receipts' = c.receipts
             /\ ret' = Outcome("cancel", "return", c.val, c.val, "", c.wrote)
    /\ UNCHANGED <<local_products, last_number, sales_id_seq, pc, req, order_id, tx, seen>>

Next ==
    \/ \E p \in Procs : CreateRejected(p)
    \/ \E p \in Procs : GenerateOrderId(p)
    \/ \E p \in Procs : GenerateOrderIdFails(p)
    \/ \E p \in Procs : InsertSale(p)
    \/ \E p \in Procs : InsertItem(p)
    \/ \E p \in Procs : InsertReceipt(p)
    \/ \E p \in Procs : CommitSale(p)
    \/ \E p \in Procs : CreateSaleFails(p)
    \/ \E p \in Procs : ChangeStatus(p)
    \/ \E p \in Procs : ConfirmRead(p)
    \/ \E p \in Procs : ConfirmWrite(p)
    \/ \E p \in Procs : CancelSale(p)

Spec == Init /\ [][Next]_vars

\* ====================================================== the sales router
\* Who sends a request: nobody with a valid X-API-Key, or one of the users.
Anonymous == 0
Callers == {Anonymous, 1, 2}

Response(op, caller, oid, code, body) ==
    [op |-> op, caller |-> caller, target |-> oid, code |-> code, body |-> body]

HttpCode(success, ok) == IF success = "True" THEN ok ELSE "400"

\* The order ids the requests of a run of the router name.
RouterOrderIds == { OrderIdOf(n) : n \in (Seed + 1)..(Seed + MaxRouterOrders) }

\* PATCH /sales/{order_id}/status: its only dependency is get_services.
ChangeStatusRequest(p) ==
    /\ pc[p] = "idle"
    /\ \E caller \in Callers, oid \in RouterOrderIds, st \in Statuses, raises \in BOOLEAN :
          LET u == UpdateSaleStatus(sales, oid, st, raises) IN
             /\ sales' = u.sales
             /\ ret' = Response("PATCH /sales/{order_id}/status", caller, oid,
                                HttpCode(ChangeStatusResult(u.val), "200"),
                                NoDetails)
    /\ UNCHANGED <<local_products, last_number, sales_id_seq, sales_items, receipts,
                   pc, req, order_id, tx, seen>>

\* DELETE /sales/cancel: its only dependency is get_services.
CancelSaleRequest(p) ==
    /\ pc[p] = "idle"
    /\ \E caller \in Callers, oid \in RouterOrderIds, raises \in BOOLEAN :
          LET c == CancelSaleDb(sales, sales_items, receipts, oid, raises) IN
             /\ sales' = c.sales
             /\ sales_items' = c.sales_items
             /\ receipts' = c.receipts
             /\ ret' = Response("DELETE /sales/cancel", caller, oid,
                                HttpCode(c.val, "202"), NoDetails)
    /\ UNCHANGED <<local_products, last_number, sales_id_seq, pc, req, order_id, tx, seen>>

\* GET /sales/{order_id}, first statement of get_sale_details: the sale row
\* is fetched into the handler's locals (tx[p].sale), or there is none and
\* the handler answers 404.
GetSaleInfoSale(p) ==
    /\ pc[p] = "idle"
    /\ \E caller \in Callers, oid \in RouterOrderIds :
          IF SaleRows(oid) = {}
             THEN /\ ret' = Response("GET /sales/{order_id}", caller, oid,
                                     "404", NoDetails)
                  /\ UNCHANGED <<pc, req, tx>>
             ELSE /\ req' = [req EXCEPT ![p] =
                                [NoReq EXCEPT !.op = "get_sale_info",
                                              !.user_id = caller, !.target = oid]]
                  /\ tx' = [tx EXCEPT ![p].sale = SaleRows(oid)]
                  /\ pc' = [pc EXCEPT ![p] = "gd_items"]
                  /\ ret' = ret
    /\ UNCHANGED <<db, order_id, seen>>

\* Second statement of get_sale_details, on the same connection and outside
\* any transaction: the item rows of the fetched sale as they are now.
GetSaleInfoItems(p) ==
    /\ pc[p] = "gd_items"
    /\ LET sale == CHOOSE s \in tx[p].sale : TRUE IN
          ret' = Response("GET /sales/{order_id}", req[p].user_id, req[p].target,
                          "200", SaleDetails(sale, ItemRowsOf(sale.id)))
    /\ Finish(p)
    /\ UNCHANGED db

\* create_sale as far as the router's bound on issued order numbers allows.
RouterGenerateOrderId(p) ==
    /\ last_number < Seed + MaxRouterOrders
    /\ GenerateOrderId(p)

\* One client creates sales; every client sends the three order requests.
RouterNext ==
    \/ \E p \in {"r1"} : CreateRejected(p)
    \/ \E p \in {"r1"} : RouterGenerateOrderId(p)
    \/ \E p \in {"r1"} : GenerateOrderIdFails(p)
    \/ \E p \in {"r1"} : InsertSale(p)
    \/ \E p \in {"r1"} : InsertItem(p)
    \/ \E p \in {"r1"} : InsertReceipt(p)
    \/ \E p \in {"r1"} : CommitSale(p)
    \/ \E p \in {"r1"} : CreateSaleFails(p)
    \/ \E p \in Procs : ChangeStatusRequest(p)
    \/ \E p \in Procs : CancelSaleRequest(p)
    \/ \E p \in Procs : GetSaleInfoSale(p)
    \/ \E p \in Procs : GetSaleInfoItems(p)

SpecRouter == Init /\ [][RouterNext]_vars

\* ================================================== GET /sales/ (listing)
\* A call under observation: ret holds its arguments, then how it ended.
Call(op, args) == [op |-> op, kind |-> "call", args |-> args]
Returned(op, args, val) == [op |-> op, kind |-> "return", args |-> args, val |-> val]
Raised(op, args, err) == [op |-> op, kind |-> "raise", args |-> args, val |-> err]

\* The rows a listing runs on: three sales of user 1, two of them with the
\* same total_amount and currency, and one sale of user 2.
ListedSale(id, user, total, cur, st, at) ==
    [id |-> id, order_id |-> OrderIdOf(Seed + id), user_id |-> user,
     total_amount |-> total, currency |-> cur, status |-> st, created_at |-> at]

SalePool ==
    {ListedSale(1, 1, 100, "KZT", "paid", 1), ListedSale(2, 1, 50, "USD", "pending", 2),
     ListedSale(3, 2, 50, "KZT", "paid", 3), ListedSale(4, 1, 50, "KZT", "cancelled", 3)}

ListedItem(sid, product, quantity, price, cost) ==
    [sale_id |-> sid, product_id |-> product, quantity |-> quantity,
     price |-> price, cost_price |-> cost, total |-> price * quantity]

ItemPool ==
    <<ListedItem(1, 1, 2, 50, 30), ListedItem(2, 2, 1, 50, 20),
      ListedItem(3, 1, 1, 50, 30), ListedItem(4, 2, 3, 10, 10),
      ListedItem(4, 1, 2, 10, 5)>>

ListedItems(S) == SelectSeq(ItemPool, LAMBDA it : \E r \in S : r.id = it.sale_id)

ListedReceipts(S) ==
    { [order_id |-> r.order_id, user_id |-> r.user_id,
       total_amount |-> r.total_amount, payment_method |-> "cash"] : r \in S }

\* Python None is the string "None" here; None and "" are falsy.
Truthy(str) == str \notin {"None", ""}

SortByInputs ==
    {"None", "", "id", "order_id", "total_amount", "currency", "status",
     "created_at", "ID", "user_id", "total_amount; DROP TABLE sales"}

SortOrderInputs == {"asc", "ASC", "Asc", "desc", "up"}

\* str.lower() on the sort orders a call may carry.
Lower(str) ==
    CASE str = "ASC" -> "asc"
      [] str = "Asc" -> "asc"
      [] OTHER -> str

valid_columns == {"id", "order_id", "total_amount", "currency", "status", "created_at"}

\* Any sort_by given is written into the query text.
OrderByUnchecked(sort_by, sort_order) ==
    IF Truthy(sort_by)
       THEN <<"ORDER BY", sort_by, IF Lower(sort_order) = "asc" THEN "ASC" ELSE "DESC">>
       ELSE <<"ORDER BY", "id", "ASC">>

\* The ORDER BY part of the query text, as its words.
OrderBy(sort_by, sort_order) ==
    IF Truthy(sort_by) /\ sort_by \in valid_columns
       THEN <<"ORDER BY", sort_by, IF Lower(sort_order) = "asc" THEN "ASC" ELSE "DESC">>
       ELSE <<"ORDER BY", "id", "ASC">>

\* get_sales called with no search and no dates: the query text.
GetSalesQuery(sort_by, sort_order) ==
    <<"SELECT * FROM sales WHERE user_id = $1">>
       \o OrderBy(sort_by, sort_order) \o <<"LIMIT $2 OFFSET $3">>

\* The collation of the texts stored in the listed rows.
TextOrder ==
    <<"KZT", "ORD-10001", "ORD-10002", "ORD-10003", "ORD-10004", "USD",
      "cancelled", "paid", "pending">>

TextRank(str) == CHOOSE i \in 1..Len(TextOrder) : TextOrder[i] = str

\* The value a row is sorted by under ORDER BY col.
SortKey(row, col) ==
    CASE col = "id" -> row.id
      [] col = "order_id" -> TextRank(row.order_id)
      [] col = "total_amount" -> row.total_amount
      [] col = "currency" -> TextRank(row.currency)
      [] col = "status" -> TextRank(row.status)
      [] col = "created_at" -> row.created_at
      [] col = "total_sold" -> row.total_sold
      [] OTHER -> row.id

\* The orders in which the store may return rows under ORDER BY col dir:
\* rows of equal key come in any order.
OrderedBy(rows, col, dir) ==
    LET n == Cardinality(rows) IN
       { q \in [1..n -> rows] :
            /\ \A i, j \in 1..n : i # j => q[i] # q[j]
            /\ \A i, j \in 1..n :
                  i < j => IF dir = "ASC"
                              THEN SortKey(q[i], col) <= SortKey(q[j], col)
                              ELSE SortKey(q[i], col) >= SortKey(q[j], col) }

\* LIMIT limit OFFSET skip on the ordered rows q.
Page(q, skip, limit) ==
    IF skip + 1 > Len(q) \/ limit = 0
       THEN <<>>
       ELSE SubSeq(q, skip + 1, IF skip + limit < Len(q) THEN skip + limit ELSE Len(q))

\* PostgreSQL refuses a negative LIMIT or OFFSET.
StoreRejects(skip, limit) == limit < 0 \/ skip < 0

\* sale["items"] = items_map.get(sale["id"], [])
WithItems(row, I) ==
    [id |-> row.id, order_id |-> row.order_id, user_id |-> row.user_id,
     total_amount |-> row.total_amount, currency |-> row.currency,
     status |-> row.status, created_at |-> row.created_at,
     items |-> ItemRowsIn(I, row.id)]

\* SELECT COUNT(*) FROM sales WHERE user_id = $1; return result if result else 0
GetSalesCount(S, user) ==
    LET result == Cardinality({ r \in S : r.user_id = user }) IN
       IF result # 0 THEN result ELSE 0

CurrentPage(skip, limit) == IF limit > 0 THEN (skip \div limit) + 1 ELSE 1
TotalPages(total_count, limit) ==
    IF limit > 0 THEN (total_count + limit - 1) \div limit ELSE 1

Envelope(total_count, skip, limit, content) ==
    [total_count |-> total_count,
     current_page |-> CurrentPage(skip, limit),
     total_pages |-> TotalPages(total_count, limit),
     limit |-> limit, skip |-> skip,
     is_last |-> CurrentPage(skip, limit) >= TotalPages(total_count, limit),
     content |-> content]

GetSalesArgs ==
    [user_id : {1, 2}, skip : 0..MaxSkip, limit : (0 - 1)..MaxLimit,
     sort_by : SortByInputs, sort_order : SortOrderInputs]

\* A stored set of sales and a get_sales call about to run on it.
ListInit ==
    /\ \E S \in SUBSET SalePool :
          /\ sales = S
          /\ sales_items = ListedItems(S)
          /\ receipts = ListedReceipts(S)
    /\ local_products = Catalog
    /\ last_number = Seed + Cardinality(SalePool)
    /\ sales_id_seq = Cardinality(SalePool)
    /\ pc = [p \in Procs |-> "idle"]
    /\ req = [p \in Procs |-> NoReq]
    /\ order_id = [p \in Procs |-> ""]
    /\ tx = [p \in Procs |-> NoTx]
    /\ seen = [p \in Procs |-> ""]
    /\ \E a \in GetSalesArgs : ret = Call("get_sales", a)

\* SalesService.get_sales: the count, the page with its items, the envelope.
\* The data service's query text is kept beside the result.
GetSales ==
    /\ ret.op = "get_sales" /\ ret.kind = "call"
    /\ LET a == ret.args
           total_count == GetSalesCount(sales, a.user_id)
           query == GetSalesQuery(a.sort_by, a.sort_order) IN
          IF StoreRejects(a.skip, a.limit)
             THEN ret' = Raised("get_sales", a, "InvalidRowCountInLimitClauseError")
             ELSE \E q \in OrderedBy({ r \in sales : r.user_id = a.user_id },
                                     query[3], query[4]) :
                     LET page == Page(q, a.skip, a.limit)
                         content == [i \in 1..Len(page) |-> WithItems(page[i], sales_items)] IN
                        ret' = Returned("get_sales", a,
                                        [query |-> query,
                                         envelope |-> Envelope(total_count, a.skip,
                                                               a.limit, content)])
    /\ UNCHANGED <<db, pc, req, order_id, tx, seen>>

ListNext == GetSales

SpecList == ListInit /\ [][ListNext]_vars

\* ===================================================== GET /analytics/sales
\* Time is counted in days; a sale's created_at is the day it was stored.
\* An SQL value is the empty set (NULL) or the set of the one value it is.
Null == {}
NotNull(v) == {v}
ValueOf(x) == CHOOSE v \in x : TRUE

\* No default is put in the place of NULL.
CoalesceNothing(x, d) == x

Coalesce(x, d) == IF x = Null THEN NotNull(d) ELSE x
NullIf(x, w) == IF x = NotNull(w) THEN Null ELSE x

RECURSIVE SumOver(_)
\* The sum of the values in a set of (row key, value) pairs.
SumOver(pairs) ==
    IF pairs = {} THEN 0
    ELSE LET e == CHOOSE x \in pairs : TRUE IN e[2] + SumOver(pairs \ {e})

\* SUM over the rows' values: NULL when there is no row.
SqlSum(pairs) == IF pairs = {} THEN Null ELSE NotNull(SumOver(pairs))

RECURSIVE Pow10(_)
Pow10(n) == IF n = 0 THEN 1 ELSE 10 * Pow10(n - 1)

\* AVG over the rows' values, with QuotientDigits decimals: NULL for no row.
SqlAvg(pairs) ==
    IF pairs = {} THEN Null
    ELSE NotNull((2 * SumOver(pairs) * Pow10(QuotientDigits) + Cardinality(pairs))
                    \div (2 * Cardinality(pairs)))

\* numeric / numeric for a >= 0 and b > 0: the quotient with QuotientDigits
\* decimals, as a count of units of 10^-QuotientDigits, rounded half up.
NumericDiv(a, b) == (2 * a * Pow10(QuotientDigits) + b) \div (2 * b)

\* x / y, NULL when either is.
SqlDiv(x, y) ==
    IF x = Null \/ y = Null THEN Null
    ELSE NotNull(NumericDiv(ValueOf(x), ValueOf(y)))

SqlTimes(x, k) == IF x = Null THEN Null ELSE NotNull(ValueOf(x) * k)

SqlMinus(x, y) ==
    IF x = Null \/ y = Null THEN Null ELSE NotNull(ValueOf(x) - ValueOf(y))

\* The value is cut off after its second decimal.
Truncate2(x) ==
    IF x = Null THEN Null
    ELSE NotNull(ValueOf(x) \div Pow10(QuotientDigits - 2))

\* ROUND(x, 2) of an x >= 0 counted in units of 10^-QuotientDigits: the
\* result counted in hundredths, halves rounded up.
Round2(x) ==
    IF x = Null THEN Null
    ELSE NotNull((ValueOf(x) + 5 * Pow10(QuotientDigits - 3))
                    \div Pow10(QuotientDigits - 2))

\* ROUND(COALESCE((part / NULLIF(whole, 0)) * 100, 0), 2), in hundredths.
Percentage(part, whole) ==
    Round2(Coalesce(SqlTimes(SqlDiv(part, NullIf(whole, 0)), 100), 0))

\* WHERE user_id = $1 AND created_at BETWEEN $2 AND $3
InWindow(S, user, start_date, end_date) ==
    { r \in S : r.user_id = user /\ start_date <= r.created_at
                 /\ r.created_at <= end_date }

\* The item rows joined to the sales W, as a set of (position, row) pairs.
ItemsOfSales(I, W) ==
    { <<i, I[i]>> : i \in { j \in 1..Len(I) : \E r \in W : r.id = I[j].sale_id } }

\* jsonb_agg of the rows q: NULL for no row.  The text that asyncpg hands
\* over is kept as the list it spells.
JsonbAgg(q) == IF q = <<>> THEN Null ELSE NotNull([jsonb |-> q])
EmptyJsonArray == [jsonb |-> <<>>]
json_loads(text) == text.jsonb

LatestOrder(r) ==
    [order_id |-> r.order_id, status |-> r.status,
     total_amount |-> r.total_amount, created_at |-> r.created_at]

\* top_products_base before ORDER BY and LIMIT: one row per product that
\* is sold in W and is in the catalog.
TopProductRows(I, W, P) ==
    LET sold == ItemsOfSales(I, W) IN
       { [id |-> lp.id, product_id |-> lp.id, product_name |-> lp.sku_name,
          product_price |-> lp.price,
          total_sold |-> SumOver({ <<e[1], e[2].quantity>> :
                                      e \in { x \in sold : x[2].product_id = lp.id } })] :
            lp \in { c \in P : \E e \in sold : e[2].product_id = c.id } }

TopProduct(r) ==
    [product_id |-> r.product_id, product_name |-> r.product_name,
     product_price |-> r.product_price, total_sold |-> r.total_sold]

RowsIn(q) == { q[i] : i \in 1..Len(q) }

\* The one row of the analytics query for the in-window sales W of a user,
\* their item pairs sold, the start of today, and the two aggregated lists.
\* Every column is an SQL value.
SalesAnalyticsRow(W, sold, today, latest, top) ==
    LET total_sales_sum == Coalesce(SqlSum({ <<r.id, r.total_amount>> : r \in W }), 0)
        total_paid_sum ==
            Coalesce(SqlSum({ <<r.id, IF r.status = "paid" THEN r.total_amount ELSE 0>> :
                                r \in W }), 0)
        total_unpaid_sum ==
            Coalesce(SqlSum({ <<r.id, IF r.status = "unpaid" THEN r.total_amount ELSE 0>> :
                                r \in W }), 0)
        revenue == SqlSum({ <<e[1], e[2].price * e[2].quantity>> : e \in sold })
        cost == SqlSum({ <<e[1], e[2].cost_price * e[2].quantity>> : e \in sold }) IN
       [total_sales_count |-> NotNull(Cardinality(W)),
        total_sales_sum |-> total_sales_sum,
        sales_today |-> NotNull(Cardinality({ r \in W : r.created_at >= today })),
        total_paid_sum |-> total_paid_sum,
        paid_percentage |-> Percentage(total_paid_sum, total_sales_sum),
        total_unpaid_sum |-> total_unpaid_sum,
        unpaid_percentage |-> Percentage(total_unpaid_sum, total_sales_sum),
        average_invoice |->
            Coalesce(SqlAvg({ <<r.id, r.total_amount>> : r \in W }), 0),
        profit |-> Coalesce(SqlMinus(revenue, cost), 0),
        latest_orders |-> Coalesce(JsonbAgg(latest), EmptyJsonArray),
        top_products |-> Coalesce(JsonbAgg(top), EmptyJsonArray)]

\* The router on dict(row): json.loads of the two texts and the making of
\* the SalesAnalyticsDTO fail on a None.
HasNone(analytics) == \E f \in DOMAIN analytics : analytics[f] = Null

SalesAnalyticsDTO(analytics) ==
    [f \in DOMAIN analytics |->
        IF f \in {"latest_orders", "top_products"}
           THEN json_loads(ValueOf(analytics[f]))
           ELSE ValueOf(analytics[f])]

GetSalesAnalyticsArgs ==
    [user_id : {1, 2}, start_date : 0..MaxDay, end_date : 0..MaxDay,
     now : 3..MaxDay]

\* Stored sales, a catalog some products may have left, and a call of
\* GET /analytics/sales about to run.
AnalyticsInit ==
    /\ \E S \in SUBSET SalePool :
          /\ sales = S
          /\ sales_items = ListedItems(S)
          /\ receipts = ListedReceipts(S)
    /\ local_products \in SUBSET Catalog
    /\ last_number = Seed + Cardinality(SalePool)
    /\ sales_id_seq = Cardinality(SalePool)
    /\ pc = [p \in Procs |-> "idle"]
    /\ req = [p \in Procs |-> NoReq]
    /\ order_id = [p \in Procs |-> ""]
    /\ tx = [p \in Procs |-> NoTx]
    /\ seen = [p \in Procs |-> ""]
    /\ \E a \in GetSalesAnalyticsArgs : ret = Call("get_sales_analytics", a)

\* The item rows are joined to the catalog: rows of products no longer
\* in it are lost, the others are valued at the catalog's price.
ProfitItemsFromCatalog(I, W, P) ==
    { <<e[1], [e[2] EXCEPT !.price =
                  (CHOOSE c \in P : c.id = e[2].product_id).price]>> :
         e \in { x \in ItemsOfSales(I, W) : \E c \in P : c.id = x[2].product_id } }

\* profit_calc: FROM sales_items si JOIN sales s ON si.sale_id = s.id; the
\* catalog P is not joined.
ProfitItems(I, W, P) == ItemsOfSales(I, W)

\* get_sales_analytics on the tables S, I, P with the arguments a, then the
\* router's parsing: every outcome the call can have.  Rows of equal sort
\* key come in any order.
AnalyticsOutcomes(S, I, P, a) ==
    LET W == InWindow(S, a.user_id, a.start_date, a.end_date)
        los == UNION { OrderedBy(RowsIn(Page(lb, 0, 5)), "created_at", "DESC") :
                          lb \in OrderedBy(W, "created_at", "DESC") }
        tps == UNION { OrderedBy(RowsIn(Page(tb, 0, 5)), "total_sold", "DESC") :
                          tb \in OrderedBy(TopProductRows(I, W, P),
                                           "total_sold", "DESC") }
        RowOf(lo, tp) ==
            SalesAnalyticsRow(W, ProfitItems(I, W, P), a.now,
                              [i \in 1..Len(lo) |-> LatestOrder(lo[i])],
                              [i \in 1..Len(tp) |-> TopProduct(tp[i])])
        OutcomeOf(row) ==
            IF HasNone(row)
               THEN Raised("get_sales_analytics", a, "TypeError")
               ELSE Returned("get_sales_analytics", a, SalesAnalyticsDTO(row)) IN
       { OutcomeOf(RowOf(lo, tp)) : lo \in los, tp \in tps }

\* GET /analytics/sales with both dates given: the one query on the stored
\* tables.
GetSalesAnalytics ==
    /\ ret.op = "get_sales_analytics" /\ ret.kind = "call"
    /\ ret' \in AnalyticsOutcomes(sales, sales_items, local_products, ret.args)
    /\ UNCHANGED <<db, pc, req, order_id, tx, seen>>

AnalyticsNext == GetSalesAnalytics

SpecAnalytics == AnalyticsInit /\ [][AnalyticsNext]_vars

\* ================================= GET /analytics/sales among other requests
\* The query reads rows that other transactions have not committed.
StatementSeesUncommitted ==
    [sales |-> sales \cup UNION { tx[q].sale : q \in Procs },
     sales_items |-> sales_items \o tx["r1"].items \o tx["r2"].items,
     local_products |-> local_products]

\* What the one statement of get_sales_analytics reads under READ COMMITTED:
\* the rows committed when it starts.
StatementSees ==
    [sales |-> sales, sales_items |-> sales_items,
     local_products |-> local_products]

\* The calls of GET /analytics/sales made while sales are written: both
\* users, a window that ends before today and one that holds today.
LiveAnalyticsArgs ==
    [user_id : {1, 2}, start_date : {0}, end_date : {Today - 1, MaxDay},
     now : {Today}]

\* The request has reached the service and waits for a pooled connection.
GetSalesAnalyticsCall(p) ==
    /\ pc[p] = "idle"
    /\ \E a \in LiveAnalyticsArgs :
          req' = [req EXCEPT ![p] = [op |-> "get_sales_analytics", args |-> a]]
    /\ pc' = [pc EXCEPT ![p] = "an_query"]
    /\ UNCHANGED <<db, order_id, tx, seen, ret>>

\* conn.fetchrow(query, ...): the whole query is one statement.
GetSalesAnalyticsQuery(p) ==
    /\ pc[p] = "an_query"
    /\ LET t == StatementSees IN
          ret' \in AnalyticsOutcomes(t.sales, t.sales_items, t.local_products,
                                     req[p].args)
    /\ Finish(p)
    /\ UNCHANGED db

\* One client creates sales and changes them; the other changes them too
\* and asks for the analytics.
LiveAnalyticsNext ==
    \/ \E p \in {"r1"} : GenerateOrderId(p)
    \/ \E p \in {"r1"} : InsertSale(p)
    \/ \E p \in {"r1"} : InsertItem(p)
    \/ \E p \in {"r1"} : InsertReceipt(p)
    \/ \E p \in {"r1"} : CommitSale(p)
    \/ \E p \in {"r1"} : CreateSaleFails(p)
    \/ \E p \in Procs : ChangeStatus(p)
    \/ \E p \in Procs : CancelSale(p)
    \/ \E p \in {"r2"} : GetSalesAnalyticsCall(p)
    \/ \E p \in {"r2"} : GetSalesAnalyticsQuery(p)

SpecLiveAnalytics == Init /\ [][LiveAnalyticsNext]_vars

\* ========================================= GET /sales/ among other requests
\* The calls of get_sales made while sales are written: default order.
LiveListArgs ==
    [user_id : {1, 2}, skip : {0, 1}, limit : {MaxLimit},
     sort_by : {"None"}, sort_order : {"asc"}]

\* SalesService.get_sales, first statement: get_sales_count.
GetSalesCountStep(p) ==
    /\ pc[p] = "idle"
    /\ \E a \in LiveListArgs :
          /\ req' = [req EXCEPT ![p] = [op |-> "get_sales", args |-> a]]
          /\ seen' = [seen EXCEPT ![p] =
                         [total_count |-> GetSalesCount(sales, a.user_id),
                          sales |-> <<>>]]
    /\ pc' = [pc EXCEPT ![p] = "ls_page"]
    /\ UNCHANGED <<db, order_id, tx, ret>>

\* get_sales, the page: sales = await self.fetch_all(query, *params); an
\* empty page is returned at once.
GetSalesPageStep(p) ==
    /\ pc[p] = "ls_page"
    /\ LET a == req[p].args
           query == GetSalesQuery(a.sort_by, a.sort_order) IN
          IF StoreRejects(a.skip, a.limit)
             THEN /\ ret' = Raised("get_sales", a, "InvalidRowCountInLimitClauseError")
                  /\ Finish(p)
             ELSE \E q \in OrderedBy({ r \in sales : r.user_id = a.user_id },
                                     query[3], query[4]) :
                     LET page == Page(q, a.skip, a.limit) IN
                        IF page = <<>>
                           THEN /\ ret' = Returned("get_sales", a,
                                             [query |-> query,
                                              envelope |->
                                                 Envelope(seen[p].total_count,
                                                          a.skip, a.limit, <<>>)])
                                /\ Finish(p)
                           ELSE /\ seen' = [seen EXCEPT ![p].sales = page]
                                /\ pc' = [pc EXCEPT ![p] = "ls_items"]
                                /\ UNCHANGED <<req, order_id, tx, ret>>
    /\ UNCHANGED db

\* get_sales, the items of the page's order ids, then the envelope.
GetSalesItemsStep(p) ==
    /\ pc[p] = "ls_items"
    /\ LET a == req[p].args
           page == seen[p].sales
           content == [i \in 1..Len(page) |-> WithItems(page[i], sales_items)] IN
          ret' = Returned("get_sales", a,
                          [query |-> GetSalesQuery(a.sort_by, a.sort_order),
                           envelope |-> Envelope(seen[p].total_count, a.skip,
                                                 a.limit, content)])
    /\ Finish(p)
    /\ UNCHANGED db

\* One client creates sales and cancels them; the other cancels them too
\* and lists the sales.
LiveListNext ==
    \/ \E p \in {"r1"} : GenerateOrderId(p)
    \/ \E p \in {"r1"} : InsertSale(p)
    \/ \E p \in {"r1"} : InsertItem(p)
    \/ \E p \in {"r1"} : InsertReceipt(p)
    \/ \E p \in {"r1"} : CommitSale(p)
    \/ \E p \in {"r1"} : CreateSaleFails(p)
    \/ \E p \in Procs : CancelSale(p)
    \/ \E p \in {"r2"} : GetSalesCountStep(p)
    \/ \E p \in {"r2"} : GetSalesPageStep(p)
    \/ \E p \in {"r2"} : GetSalesItemsStep(p)

SpecLiveList == Init /\ [][LiveListNext]_vars

\* ========================== GET /analytics/sales while the catalog changes
\* The price a product is changed to.
NewPrice == 5

\* The calls of GET /analytics/sales repeated while the catalog changes.
CatalogAnalyticsArgs ==
    [user_id : {1, 2}, start_date : {0, 2}, end_date : {MaxDay}, now : {Today}]

\* Stored sales, the full catalog, and a call about to run.
CatalogInit ==
    /\ \E S \in SUBSET SalePool :
          /\ sales = S
          /\ sales_items = ListedItems(S)
          /\ receipts = ListedReceipts(S)
    /\ local_products = Catalog
    /\ last_number = Seed + Cardinality(SalePool)
    /\ sales_id_seq = Cardinality(SalePool)
    /\ pc = [p \in Procs |-> "idle"]
    /\ req = [p \in Procs |-> NoReq]
    /\ order_id = [p \in Procs |-> ""]
    /\ tx = [p \in Procs |-> NoTx]
    /\ seen = [p \in Procs |-> ""]
    /\ \E a \in CatalogAnalyticsArgs : ret = Call("get_sales_analytics", a)

\* The same request sent once more.
GetSalesAnalyticsAgain ==
    /\ ret.op = "get_sales_analytics" /\ ret.kind = "return"
    /\ ret' \in AnalyticsOutcomes(sales, sales_items, local_products, ret.args)
    /\ UNCHANGED <<db, pc, req, order_id, tx, seen>>

\* update_local_product: UPDATE local_products SET price = $1 WHERE id = $2
UpdateLocalProduct ==
    /\ \E c \in local_products :
          /\ c.price # NewPrice
          /\ local_products' = (local_products \ {c})
                                   \cup {[c EXCEPT !.price = NewPrice]}
    /\ UNCHANGED <<last_number, sales_id_seq, sales, sales_items, receipts,
                   pc, req, order_id, tx, seen, ret>>

\* delete_local_product: DELETE FROM local_products WHERE id = $1
DeleteLocalProduct ==
    /\ \E c \in local_products : local_products' = local_products \ {c}
    /\ UNCHANGED <<last_number, sales_id_seq, sales, sales_items, receipts,
                   pc, req, order_id, tx, seen, ret>>

CatalogNext ==
    \/ GetSalesAnalytics
    \/ GetSalesAnalyticsAgain
    \/ UpdateLocalProduct
    \/ DeleteLocalProduct

SpecCatalog == CatalogInit /\ [][CatalogNext]_vars

\* =========================== role-guarded and audited endpoints of the API
\* Roles a user may hold, and the callers of this model: every set of
\* roles, active or not.
Roles == {"admin", "manager", "user"}
ApiUsers == [roles : SUBSET Roles, is_active : BOOLEAN]

\* The endpoints modelled, and the list each one passes to has_role
\* (PUT /users/me asks for an active user only).
Endpoints ==
    {"GET /audit/logs", "PUT /users/me", "GET /users/", "PUT /users/{username}",
     "POST /products/"}

required_roles(op) ==
    CASE op = "GET /audit/logs" -> <<"admin">>
      [] op = "GET /users/" -> <<"admin">>
      [] op = "PUT /users/{username}" -> <<"admin">>
      [] op = "POST /products/" -> <<"admin", "manager">>
      [] OTHER -> <<>>

\* Every caller passes the role check.
NoRoleNeeded(required, roles) == TRUE

\* role_checker: for role in required_roles: if role in current_user.roles
has_role(required, roles) == \E i \in 1..Len(required) : required[i] \in roles

\* A request in progress: the data-store calls made for it so far, each with
\* how it ended ("row", "None" or "raise").
ApiRequest(op, user, stored) ==
    [op |-> op, kind |-> "call", args |-> [user |-> user, stored |-> stored],
     calls |-> <<>>]

\* The response that ends the request r.
Answered(r, code, detail) ==
    [op |-> r.op, kind |-> "answered", args |-> r.args, calls |-> r.calls,
     val |-> [code |-> code, detail |-> detail]]

WithCall(r, name, outcome) == [r EXCEPT !.calls = Append(@, <<name, outcome>>)]

\* The code a handler's except clauses give an exception raised in its try
\* block: ValueError is 400 where it is caught; only PUT /users/{username}
\* re-raises an HTTPException, elsewhere "except Exception" turns it to 500.
ErrorCode(op, exc) ==
    CASE exc = "ValueError" /\ op # "GET /audit/logs" -> "400"
      [] exc = "HTTP404" /\ op = "PUT /users/{username}" -> "404"
      [] OTHER -> "500"

ErrorDetail(code) ==
    CASE code = "404" -> "User not found"
      [] code = "400" -> "ValueError"
      [] OTHER -> "Internal server error"

Fails(r, exc) ==
    Answered(r, ErrorCode(r.op, exc), ErrorDetail(ErrorCode(r.op, exc)))

\* One authenticated request is about to be served.  stored tells whether
\* the row the request names (the user of PUT /users/{username}, the SKU of
\* POST /products/) is in the store; the caller's own row always is.
ApiInit ==
    /\ last_number = Seed
    /\ sales_id_seq = 0
    /\ sales = {}
    /\ sales_items = <<>>
    /\ receipts = {}
    /\ local_products = Catalog
    /\ pc = [p \in Procs |-> "idle"]
    /\ req = [p \in Procs |-> NoReq]
    /\ order_id = [p \in Procs |-> ""]
    /\ tx = [p \in Procs |-> NoTx]
    /\ seen = [p \in Procs |-> ""]
    /\ \E op \in Endpoints, u \in ApiUsers, stored \in BOOLEAN :
          /\ (op \notin {"PUT /users/{username}", "POST /products/"}) => stored
          /\ ret = ApiRequest(op, u, stored)

ApiStep(label) ==
    /\ pc' = [pc EXCEPT !["r1"] = label]
    /\ UNCHANGED <<db, req, order_id, tx, seen>>

\* get_current_active_user
GetCurrentActiveUser ==
    /\ pc["r1"] = "idle" /\ ret.op \in Endpoints /\ ret.kind = "call"
    /\ IF ~ret.args.user.is_active
          THEN ret' = Answered(ret, "400", "Inactive user") /\ ApiStep("done")
          ELSE /\ ret' = ret
               /\ ApiStep(IF required_roles(ret.op) = <<>>
                              THEN "handler" ELSE "role_checker")

\* has_role(required_roles): role_checker
RoleChecker ==
    /\ pc["r1"] = "role_checker"
    /\ IF has_role(required_roles(ret.op), ret.args.user.roles)
          THEN ret' = ret /\ ApiStep("handler")
          ELSE /\ ret' = Answered(ret, "403", "Not enough permissions")
               /\ ApiStep("done")

\* GET /audit/logs: db_service.get_audit_logs
GetAuditLogs ==
    /\ pc["r1"] = "handler" /\ ret.op = "GET /audit/logs"
    /\ \E raises \in BOOLEAN :
          IF raises
             THEN /\ ret' = Fails(WithCall(ret, "get_audit_logs", "raise"), "Exception")
                  /\ ApiStep("done")
             ELSE /\ ret' = WithCall(ret, "get_audit_logs", "row")
                  /\ ApiStep("add_audit_log")

\* The failure of update_user is passed over and the audit entry written.
UpdateUserMeAuditsAnyway ==
    /\ pc["r1"] = "handler" /\ ret.op = "PUT /users/me"
    /\ \E raises \in BOOLEAN :
          ret' = WithCall(ret, "update_user", IF raises THEN "raise" ELSE "row")
    /\ ApiStep("add_audit_log")

\* PUT /users/me: db_service.update_user on the caller's own row
UpdateUserMe ==
    /\ pc["r1"] = "handler" /\ ret.op = "PUT /users/me"
    /\ \E raises \in BOOLEAN :
          IF raises
             THEN /\ ret' = Fails(WithCall(ret, "update_user", "raise"), "Exception")
                  /\ ApiStep("done")
             ELSE IF ~ret.args.stored
                     THEN /\ ret' = Fails(WithCall(ret, "update_user", "None"), "HTTP404")
                          /\ ApiStep("done")
                     ELSE /\ ret' = WithCall(ret, "update_user", "row")
                          /\ ApiStep("add_audit_log")

\* GET /users/: not implemented
ReadUsers ==
    /\ pc["r1"] = "handler" /\ ret.op = "GET /users/"
    /\ ret' = Answered(ret, "501", "This endpoint is not implemented yet")
    /\ ApiStep("done")

\* PUT /users/{username}: db_service.get_user_by_username
GetUserByUsername ==
    /\ pc["r1"] = "handler" /\ ret.op = "PUT /users/{username}"
    /\ \E raises \in BOOLEAN :
          IF raises
             THEN /\ ret' = Fails(WithCall(ret, "get_user_by_username", "raise"),
                                  "Exception")
                  /\ ApiStep("done")
             ELSE IF ~ret.args.stored
                     THEN /\ ret' = Fails(WithCall(ret, "get_user_by_username", "None"),
                                          "HTTP404")
                          /\ ApiStep("done")
                     ELSE /\ ret' = WithCall(ret, "get_user_by_username", "row")
                          /\ ApiStep("update_user")

\* PUT /users/{username}: db_service.update_user; its result is not looked
\* at before the audit entry is written.
UpdateUser ==
    /\ pc["r1"] = "update_user"
    /\ \E raises \in BOOLEAN :
          IF raises
             THEN /\ ret' = Fails(WithCall(ret, "update_user", "raise"), "Exception")
                  /\ ApiStep("done")
             ELSE /\ ret' = WithCall(ret, "update_user",
                                     IF ret.args.stored THEN "row" ELSE "None")
                  /\ ApiStep("add_audit_log")

\* POST /products/: ProductService.create_product looks the SKU up and
\* refuses one that exists.
GetProductBySku ==
    /\ pc["r1"] = "handler" /\ ret.op = "POST /products/"
    /\ \E raises \in BOOLEAN :
          IF raises
             THEN /\ ret' = Fails(WithCall(ret, "get_product_by_sku", "raise"),
                                  "Exception")
                  /\ ApiStep("done")
             ELSE IF ret.args.stored
                     THEN /\ ret' = Fails(WithCall(ret, "get_product_by_sku", "row"),
                                          "ValueError")
                          /\ ApiStep("done")
                     ELSE /\ ret' = WithCall(ret, "get_product_by_sku", "None")
                          /\ ApiStep("create_product")

\* POST /products/: db_service.create_product
CreateProduct ==
    /\ pc["r1"] = "create_product"
    /\ \E raises \in BOOLEAN :
          IF raises
             THEN /\ ret' = Fails(WithCall(ret, "create_product", "raise"), "Exception")
                  /\ ApiStep("done")
             ELSE /\ ret' = WithCall(ret, "create_product", "row")
                  /\ ApiStep("add_audit_log")

\* The code of the response once the audit entry is written: User(**None)
\* fails for an update that returned no row.
SuccessCode(r) ==
    CASE r.op = "POST /products/" -> "201"
      [] r.calls[Len(r.calls)][2] = "None" -> "500"
      [] OTHER -> "200"

\* db_service.add_audit_log, the last call of each handler
AddAuditLog ==
    /\ pc["r1"] = "add_audit_log"
    /\ \E raises \in BOOLEAN :
          IF raises
             THEN ret' = Fails(WithCall(ret, "add_audit_log", "raise"), "Exception")
             ELSE ret' = Answered(WithCall(ret, "add_audit_log", "row"),
                                  SuccessCode(ret), "")
    /\ ApiStep("done")

ApiNext ==
    \/ GetCurrentActiveUser
    \/ RoleChecker
    \/ GetAuditLogs
    \/ UpdateUserMe
    \/ ReadUsers
    \/ GetUserByUsername
    \/ UpdateUser
    \/ GetProductBySku
    \/ CreateProduct
    \/ AddAuditLog

SpecApi == ApiInit /\ [][ApiNext]_vars

\* ================================================================= claims
InFlight(p) == order_id[p] # ""

\* C1: whatever the interleaving of concurrent create_sale calls, no two of
\* them hold the same order id, no call holds the id of a stored sale, and
\* no two stored sales (or receipts) carry the same order id.
C1_OrderIdsDistinct ==
    /\ \A p, q \in Procs :
          (p # q /\ InFlight(p) /\ InFlight(q)) => order_id[p] # order_id[q]
    /\ \A p \in Procs : InFlight(p) => SaleRows(order_id[p]) = {}
    /\ \A s, t \in sales : s.order_id = t.order_id => s = t
    /\ \A r, u \in receipts : r.order_id = u.order_id => r = u

\* Two create_sale calls are about to commit at the same time.
W_C1 == \E p, q \in Procs : p # q /\ pc[p] = "commit" /\ pc[q] = "commit"

\* C2 (as claimed): when the insert of an item fails, the sale row, the item
\* rows, the receipt row and the counter increment of that attempt are all
\* absent afterwards; the counter is back below the number the attempt drew.
CE_C2_FailedCreateLeavesNoTrace ==
    [][\A p \in Procs :
          (pc[p] = "ins_item" /\ pc'[p] = "idle") =>
             /\ last_number' < NumberOf(order_id[p])
             /\ RowsOf(sales', order_id[p]) = {}
             /\ RowsOf(receipts', order_id[p]) = {}
             /\ <<sales', sales_items', receipts'>> = <<sales, sales_items, receipts>>
      ]_vars

\* C3: a sale row becomes visible only together with one item row per item
\* of its request and with its receipt, the rows of a visible sale are not
\* touched by other steps, and no item row is visible without its sale.
C3_NoPartialOrderVisible ==
    [][/\ \A s \in sales' :
             IF RowsOf(sales, s.order_id) = {}
                THEN \E p \in Procs :
                        /\ order_id[p] = s.order_id
                        /\ LET rows == ItemRowsIn(sales_items', s.id) IN
                              /\ Len(rows) = Len(req[p].items)
                              /\ \A i \in 1..Len(rows) :
                                    /\ rows[i].product_id = req[p].items[i].product_id
                                    /\ rows[i].quantity = req[p].items[i].quantity
                                    /\ rows[i].price = req[p].items[i].price
                                    /\ rows[i].cost_price = req[p].items[i].cost_price
                        /\ Cardinality(RowsOf(receipts', s.order_id)) = 1
                ELSE /\ ItemRowsIn(sales_items', s.id) = ItemRowsIn(sales_items, s.id)
                     /\ RowsOf(receipts', s.order_id) = RowsOf(receipts, s.order_id)
       /\ \A i \in 1..Len(sales_items') :
             \E s \in sales' : s.id = sales_items'[i].sale_id
       /\ \A r \in receipts' : RowsOf(sales', r.order_id) # {}
      ]_vars

\* One create_sale has failed at an item insert and another one is in the
\* middle of its item inserts.
W_C3 ==
    /\ ret.op = "create" /\ ret.stage = "item"
    /\ \E p \in Procs :
          pc[p] = "ins_item" /\ Len(tx[p].items) = 1 /\ Len(req[p].items) = 2

\* The order numbers held by calls in flight or stored in the tables.
NumbersInUse ==
    { NumberOf(order_id[p]) : p \in { q \in Procs : InFlight(q) } }
       \cup { NumberOf(s.order_id) : s \in sales }
       \cup { NumberOf(r.order_id) : r \in receipts }

\* C4: the counter never decreases, and every allocation returns "ORD-"
\* followed by the counter value its own increment produced, which is
\* larger than the counter was and than every number allocated before.
C4_OrderIdsIncrease ==
    [][/\ last_number' >= last_number
       /\ \A p \in Procs :
             (order_id'[p] # order_id[p] /\ order_id'[p] # "") =>
                /\ last_number' > last_number
                /\ order_id'[p] = "ORD-" \o ToString(last_number')
                /\ \A n \in NumbersInUse : n < NumberOf(order_id'[p])
      ]_vars

\* A call in flight holds a larger number than a sale stored before it.
W_C4 ==
    \E s \in sales, p \in Procs :
       InFlight(p) /\ NumberOf(s.order_id) < NumberOf(order_id[p])

\* C5: every stored sale's total_amount is the sum of price * quantity over
\* its item rows, every item row's total is its price * quantity, and the
\* sale's receipt carries the same total_amount, whatever its status is now.
C5_TotalsConsistent ==
    \A s \in sales :
       LET rows == ItemRowsOf(s.id) IN
          /\ s.total_amount = SumPriceQty(rows)
          /\ \A i \in 1..Len(rows) : rows[i].total = rows[i].price * rows[i].quantity
          /\ ReceiptRows(s.order_id) # {}
          /\ \A r \in ReceiptRows(s.order_id) : r.total_amount = s.total_amount

\* A sale of two items has been through status changes: no sale is created
\* cancelled in this model.
W_C5 ==
    \E s \in sales :
       /\ Len(ItemRowsOf(s.id)) = 2
       /\ s.status = "cancelled"
       /\ ret.op = "change_status"

\* C6: on a pending order confirm_payment returns success and leaves the
\* status paid; run again at once it returns success, writes nothing and
\* leaves the table as it found it.
C6_ConfirmIdempotent ==
    \A oid \in OrderIds :
       (SaleRows(oid) # {} /\ StatusIn(sales, oid) = "pending") =>
          LET first == ConfirmPayment(sales, oid)
              second == ConfirmPayment(first.sales, oid) IN
             /\ first.val = "True"
             /\ StatusIn(first.sales, oid) = "paid"
             /\ second.val = "True"
             /\ ~second.wrote
             /\ second.sales = first.sales

\* A pending order exists, and a confirm_payment call has just returned
\* success on an order it found paid.
W_C6 ==
    /\ \E s \in sales : s.status = "pending"
    /\ ret = Outcome("confirm", "return", "True", "paid", "", FALSE)

\* C7 (as claimed): a sale that is paid is not pending after the next
\* step, and a sale that is cancelled keeps that status for as long as its
\* row exists.
CE_C7_StatusStateMachine ==
    [][\A s \in sales, t \in sales' :
          s.order_id = t.order_id =>
             /\ s.status = "paid" => t.status # "pending"
             /\ s.status = "cancelled" => t.status = "cancelled"
      ]_vars

\* C8 (as claimed): change_status reports success only when the update
\* affected exactly one row.
CE_C8_ChangeStatusSignalsFailure ==
    (ret.op = "change_status" /\ ret.kind = "return" /\ ret.val = "True")
       => ret.dbret = "True"

\* C9 (as claimed): when a statement of the insert transaction fails, the
\* service call ends with an error, never with a returned value.
CE_C9_CreateFailurePropagates ==
    (ret.op = "create" /\ ret.stage \in {"sale", "item", "receipt", "commit"})
       => ret.kind = "raise"

\* The preconditions of create_sale: some item, every quantity > 0, no
\* negative price or cost_price.
CreatePreconditions(items) ==
    /\ items # <<>>
    /\ \A i \in 1..Len(items) :
          /\ items[i].quantity > 0
          /\ items[i].price >= 0
          /\ items[i].cost_price >= 0

\* C10 (as claimed): a create request that breaks the preconditions never
\* draws an order number or opens the insert transaction, and its
\* rejection leaves the counter and the tables unchanged.
CE_C10_InvalidCreateRejected ==
    [][/\ \A p \in Procs :
             (pc[p] = "idle" /\ pc'[p] = "ins_sale") =>
                CreatePreconditions(req'[p].items)
       /\ (ret' # ret /\ ret'.kind = "reject") => UNCHANGED db
      ]_vars

\* C11: when the counter update fails, create_sale ends with an error at the
\* caller, and the counter and the three tables are as they were.
C11_CounterFailureLeavesNoTrace ==
    [][(ret' # ret /\ ret'.op = "create" /\ ret'.stage = "counter") =>
          /\ ret'.kind = "raise"
          /\ UNCHANGED db
      ]_vars

\* A counter update has failed after an earlier sale was stored.
W_C11 ==
    /\ ret.op = "create" /\ ret.stage = "counter" /\ ret.kind = "raise"
    /\ sales # {}
    /\ last_number = Seed + 1

C13_ConfirmMissingFails ==
    /\ \A oid \in OrderIds :
          SaleRows(oid) = {} =>
             LET c == ConfirmPayment(sales, oid) IN
                c.val = "False" /\ ~c.wrote /\ c.sales = sales
    /\ (ret.op = "confirm" /\ ret.dbret = "None") =>
          ret.val = "False" /\ ~ret.wrote

\* confirm_payment has just found no sale under an order id, after order
\* numbers have been issued.
W_C13 ==
    /\ ret.op = "confirm" /\ ret.dbret = "None" /\ ret.val = "False"
    /\ sales = {}
    /\ last_number > Seed

\* C14 (as claimed): confirm_payment on a sale whose status is cancelled ends
\* in a failure, and the sale's status is still cancelled afterwards.
CE_C14_ConfirmCancelledRefused ==
    [][\A p \in Procs :
          (pc[p] = "cp_write" /\ pc'[p] = "idle" /\ seen[p] = "cancelled"
             /\ SaleRows(req[p].target) # {}
             /\ StatusIn(sales, req[p].target) = "cancelled") =>
                /\ ret'.val = "False"
                /\ \A s \in RowsOf(sales', req[p].target) : s.status = "cancelled"
      ]_vars

RouterOps ==
    {"PATCH /sales/{order_id}/status", "DELETE /sales/cancel",
     "GET /sales/{order_id}"}

\* The caller of the request just answered holds a valid key and is the
\* user the addressed sale belongs to.
OwnerCalls(r) ==
    /\ r.caller # Anonymous
    /\ SaleRows(r.target) # {}
    /\ \A s \in SaleRows(r.target) : s.user_id = r.caller

\* C15 (as claimed): a change-status, cancel or get-sale request succeeds
\* only when its caller is authenticated and owns the sale; a request of
\* anybody else changes no sale or item row and is given no sale details.
CE_C15_OnlyOwnerActs ==
    [][(ret' # ret /\ ret'.op \in RouterOps) =>
          /\ ret'.code \in {"200", "202"} => OwnerCalls(ret')
          /\ ~OwnerCalls(ret') =>
                /\ sales' = sales
                /\ sales_items' = sales_items
                /\ ret'.body = NoDetails
      ]_vars

\* The entry of get_sale_info for one item of the request body.
SameItem(entry, item) ==
    /\ entry.product_id = item.product_id
    /\ entry.quantity = item.quantity
    /\ entry.price = item.price
    /\ entry.cost_price = item.cost_price

CeilDiv(total, size) ==
    CHOOSE k \in 0..total : k * size >= total /\ (k = 0 \/ (k - 1) * size < total)

\* C17 (as claimed): get_sales returns an envelope in which, for limit > 0,
\* current_page = skip div limit + 1, total_pages = ceil(total_count / limit)
\* and is_last = (current_page >= total_pages); for limit <= 0 the envelope
\* is one page: current_page = 1, total_pages = 1, is_last = true.
CE_C17_PaginationEnvelope ==
    (ret.op = "get_sales" /\ ret.kind # "call") =>
       /\ ret.kind = "return"
       /\ LET a == ret.args
              e == ret.val.envelope IN
             IF a.limit > 0
                THEN /\ e.current_page = (a.skip \div a.limit) + 1
                     /\ e.total_pages = CeilDiv(e.total_count, a.limit)
                     /\ e.is_last = (e.current_page >= e.total_pages)
                ELSE /\ e.current_page = 1
                     /\ e.total_pages = 1
                     /\ e.is_last = TRUE

AllowList == {"id", "order_id", "total_amount", "currency", "status", "created_at"}
AscSpellings == {"asc", "ASC", "Asc"}

\* C18: a sort_by outside the allow-list never makes get_sales fail (a call
\* fails only for a negative limit) and is never a word of the query text,
\* whose ORDER BY is then id ASC, with the page in ascending id; for a
\* sort_by inside the allow-list the query orders by that column, ASC
\* exactly when sort_order lower-cased is "asc" and DESC otherwise.
C18_SortAllowList ==
    (ret.op = "get_sales" /\ ret.kind # "call") =>
       LET a == ret.args IN
          /\ a.limit >= 0 => ret.kind = "return"
          /\ ret.kind = "return" =>
                LET q == ret.val.query
                    c == ret.val.envelope.content IN
                   IF a.sort_by \notin AllowList
                      THEN /\ \A i \in 1..Len(q) : q[i] # a.sort_by
                           /\ <<q[2], q[3], q[4]>> = <<"ORDER BY", "id", "ASC">>
                           /\ \A i, j \in 1..Len(c) : i < j => c[i].id < c[j].id
                      ELSE /\ <<q[2], q[3]>> = <<"ORDER BY", a.sort_by>>
                           /\ q[4] = IF a.sort_order \in AscSpellings
                                        THEN "ASC" ELSE "DESC"

\* A call whose sort_by carries SQL has returned a page of two sales.
W_C18 ==
    /\ ret.op = "get_sales" /\ ret.kind = "return"
    /\ ret.args.sort_by = "total_amount; DROP TABLE sales"
    /\ Len(ret.val.envelope.content) = 2

NumericFields ==
    {"total_sales_count", "total_sales_sum", "sales_today", "total_paid_sum",
     "total_unpaid_sum", "paid_percentage", "unpaid_percentage",
     "average_invoice", "profit"}

\* C19: for a user and window with no sale, the analytics request ends
\* with a result, never an error, in which the nine numeric fields are 0
\* and latest_orders and top_products are empty lists.
C19_AnalyticsZeroState ==
    (/\ ret.op = "get_sales_analytics" /\ ret.kind # "call"
     /\ InWindow(sales, ret.args.user_id, ret.args.start_date,
                 ret.args.end_date) = {}) =>
       /\ ret.kind = "return"
       /\ DOMAIN ret.val = NumericFields \cup {"latest_orders", "top_products"}
       /\ \A f \in NumericFields : ret.val[f] = 0
       /\ ret.val.latest_orders = <<>>
       /\ ret.val.top_products = <<>>

\* The analytics of a user who has sales, none of them in the window, have
\* been returned.
W_C19 ==
    /\ ret.op = "get_sales_analytics" /\ ret.kind = "return"
    /\ InWindow(sales, ret.args.user_id, ret.args.start_date,
                ret.args.end_date) = {}
    /\ \E r \in sales : r.user_id = ret.args.user_id

RECURSIVE AmountOf(_)
\* The sum of total_amount over a set of sales.
AmountOf(W) ==
    IF W = {} THEN 0
    ELSE LET r == CHOOSE x \in W : TRUE IN r.total_amount + AmountOf(W \ {r})

\* h hundredths is part / whole * 100 rounded to two decimals.
IsRoundedPercentage(h, part, whole) ==
    /\ 2 * (h * whole - 10000 * part) <= whole
    /\ 2 * (10000 * part - h * whole) <= whole

\* C20: in the analytics of a user and window, total_sales_count is the
\* number of the in-window sales, total_sales_sum the sum of their
\* total_amount, total_paid_sum that sum over the paid ones, and
\* paid_percentage (in hundredths) is total_paid_sum / total_sales_sum * 100
\* rounded to two decimals, and 0 when total_sales_sum is 0.
C20_AnalyticsTotals ==
    (ret.op = "get_sales_analytics" /\ ret.kind # "call") =>
       LET W == InWindow(sales, ret.args.user_id, ret.args.start_date,
                         ret.args.end_date)
           paid == { r \in W : r.status = "paid" } IN
          /\ ret.kind = "return"
          /\ ret.val.total_sales_count = Cardinality(W)
          /\ ret.val.total_sales_sum = AmountOf(W)
          /\ ret.val.total_paid_sum = AmountOf(paid)
          /\ IF AmountOf(W) = 0
                THEN ret.val.paid_percentage = 0
                ELSE IsRoundedPercentage(ret.val.paid_percentage,
                                         AmountOf(paid), AmountOf(W))

\* The example: a paid sale of 100 and a pending sale of 50 in the window
\* give 150, 2, 100 and 66.67.
W_C20 ==
    /\ ret.op = "get_sales_analytics" /\ ret.kind = "return"
    /\ { <<r.total_amount, r.status>> :
           r \in InWindow(sales, ret.args.user_id, ret.args.start_date,
                          ret.args.end_date) }
          = { <<100, "paid">>, <<50, "pending">> }
    /\ ret.val.total_sales_sum = 150
    /\ ret.val.total_sales_count = 2
    /\ ret.val.total_paid_sum = 100
    /\ ret.val.paid_percentage = 6667

\* C21: whatever create_sale, change_status and cancel_sale do around it,
\* the result of an analytics call is, in every field, one that the query
\* gives on the committed tables as they are at one moment between the call
\* and its return (the moment its statement runs); in particular the
\* orders it lists are as many as it counts, up to five.
C21_AnalyticsOneSnapshot ==
    [][\A p \in Procs :
          (pc[p] = "an_query" /\ pc'[p] = "idle") =>
             /\ ret' \in AnalyticsOutcomes(sales, sales_items, local_products,
                                           req[p].args)
             /\ ret'.kind = "return"
             /\ Len(ret'.val.latest_orders)
                   = IF ret'.val.total_sales_count < 5
                        THEN ret'.val.total_sales_count ELSE 5]_vars

\* The analytics of a user with one committed sale in the window have been
\* returned while create_sale holds a second sale of that user, with its
\* items, in a transaction still open.
W_C21 ==
    /\ ret.op = "get_sales_analytics" /\ ret.kind = "return"
    /\ ret.args.end_date >= Today
    /\ ret.val.total_sales_count = 1
    /\ tx["r1"].items # <<>>
    /\ \E s \in tx["r1"].sale : s.user_id = ret.args.user_id

\* C22: sales_today is the number of the user's stored sales created on
\* or after the start of the current day, whatever the window: a sale
\* created today counts also when the window ends before today.
CE_C22_SalesTodayAnyWindow ==
    (ret.op = "get_sales_analytics" /\ ret.kind = "return") =>
       ret.val.sales_today
          = Cardinality({ r \in sales : /\ r.user_id = ret.args.user_id
                                        /\ r.created_at >= ret.args.now })

\* The data-store operation an audited endpoint writes its audit entry for.
AuditedCall(op) ==
    IF op = "GET /audit/logs" THEN "get_audit_logs" ELSE "update_user"

CallsOf(r, name) == { i \in 1..Len(r.calls) : r.calls[i][1] = name }

\* C23: in GET /audit/logs, PUT /users/me and PUT /users/{username} an
\* add_audit_log call is made at most once and only after the audited
\* data-store operation (get_audit_logs, update_user) has returned; when
\* that operation raises, the request is answered 500 with no add_audit_log
\* call; a request answered 200 has made exactly one.
C23_AuditAfterSuccess ==
    (ret.op \in {"GET /audit/logs", "PUT /users/me", "PUT /users/{username}"}) =>
       LET audits == CallsOf(ret, "add_audit_log")
           ops == CallsOf(ret, AuditedCall(ret.op)) IN
          /\ Cardinality(audits) <= 1
          /\ \A i \in audits :
                \E j \in ops : j < i /\ ret.calls[j][2] # "raise"
          /\ (\E j \in ops : ret.calls[j][2] = "raise") =>
                /\ ret.kind = "answered" /\ ret.val.code = "500"
                /\ audits = {}
          /\ (ret.kind = "answered" /\ ret.val.code = "200") =>
                /\ Cardinality(audits) = 1
                /\ \E j \in ops : ret.calls[j][2] = "row"

\* update_user has raised in PUT /users/me: the request is answered 500
\* and update_user is the only data-store call made.
W_C23 ==
    /\ ret.op = "PUT /users/me" /\ ret.kind = "answered"
    /\ ret.calls = << <<"update_user", "raise">> >>
    /\ ret.val = [code |-> "500", detail |-> "Internal server error"]

\* The roles an endpoint asks for, as a set.
RequiredRoleSet(op) ==
    { required_roles(op)[i] : i \in 1..Len(required_roles(op)) }

\* C24: on an endpoint guarded by has_role, a request of an active user
\* who holds none of the required roles makes no data-store call, never
\* reaches the handler, and is answered, if at all, with 403 "Not enough
\* permissions"; a request of an active user who holds one of them is
\* never answered 403.
C24_RoleGate ==
    (/\ ret.op \in Endpoints /\ required_roles(ret.op) # <<>>
     /\ ret.args.user.is_active) =>
       IF RequiredRoleSet(ret.op) \cap ret.args.user.roles = {}
          THEN /\ ret.calls = <<>>
               /\ pc["r1"] \in {"idle", "role_checker", "done"}
               /\ ret.kind = "answered" =>
                     ret.val = [code |-> "403", detail |-> "Not enough permissions"]
          ELSE /\ pc["r1"] = "done" => ret.kind = "answered"
               /\ ret.kind = "answered" => ret.val.code # "403"

\* An active user with the roles user and manager has asked for
\* PUT /users/{username} and has been answered 403 before any data-store
\* call.
W_C24 ==
    /\ ret.op = "PUT /users/{username}" /\ ret.kind = "answered"
    /\ ret.args.user = [roles |-> {"user", "manager"}, is_active |-> TRUE]
    /\ ret.val.code = "403"
    /\ ret.calls = <<>>

\* A sale row without its status.
BesideStatus(r) ==
    [id |-> r.id, order_id |-> r.order_id, user_id |-> r.user_id,
     total_amount |-> r.total_amount, currency |-> r.currency,
     created_at |-> r.created_at]

\* The step is confirm_payment's read by request p: it returns early with
\* the request still idle, or goes on to the write.
StatusRead(p) ==
    /\ pc[p] = "idle"
    /\ \/ pc'[p] = "cp_write"
       \/ pc' = pc /\ ret'.op = "confirm"

\* The step is a call of update_sale_status by request p: change_status,
\* which leaves every request where it is, or confirm_payment's write.
StatusWrite(p) ==
    \/ pc[p] = "idle" /\ pc' = pc /\ ret'.op = "change_status"
    \/ pc[p] = "cp_write" /\ pc'[p] = "idle"

\* C25: a step of change_status or confirm_payment leaves the order
\* counter, the item rows, the receipts and the catalog as they are and
\* changes at most one sale row, in its status only, that row having the
\* order_id given; update_sale_status returns true exactly when it has
\* written a row, which is then the one row of that order_id.
C25_StatusFrame ==
    [][\A p \in Procs :
          (StatusRead(p) \/ StatusWrite(p)) =>
             /\ UNCHANGED <<last_number, sales_id_seq, sales_items, receipts,
                            local_products>>
             /\ Cardinality(sales \ sales') <= 1
             /\ { BesideStatus(r) : r \in sales' } = { BesideStatus(r) : r \in sales }
             /\ Cardinality(sales') = Cardinality(sales)
             /\ StatusWrite(p) =>
                   \E oid \in OrderIds :
                      /\ pc[p] = "cp_write" => oid = req[p].target
                      /\ \A r \in sales : r.order_id # oid => r \in sales'
                      /\ ret'.dbret = "True" <=> ret'.wrote
                      /\ ret'.wrote => Cardinality(RowsOf(sales, oid)) = 1]_vars

\* change_status has set one of two stored sales to cancelled; the item
\* rows and both receipts are in place.
W_C25 ==
    /\ ret.op = "change_status" /\ ret.wrote
    /\ Cardinality(sales) = 2
    /\ \E r \in sales : r.status = "cancelled"
    /\ sales_items # <<>>
    /\ Cardinality(receipts) = 2

\* The sum of f over the item rows I[i..] that belong to a sale of W.
RECURSIVE ItemSum(_, _, _, _)
ItemSum(I, i, W, f) ==
    IF i > Len(I) THEN 0
    ELSE (IF \E r \in W : r.id = I[i].sale_id
             THEN (IF f = "price" THEN I[i].price ELSE I[i].cost_price)
                     * I[i].quantity
             ELSE 0)
         + ItemSum(I, i + 1, W, f)

\* C26: the profit an analytics call returns is the sum of price*quantity
\* minus the sum of cost_price*quantity over the stored item rows of the
\* in-window sales, and for the same user and window it is the profit
\* returned before, whatever was updated in or deleted from the catalog in
\* between.
C26_ProfitFromItemRows ==
    [][(ret'.op = "get_sales_analytics" /\ ret'.kind # "call") =>
          LET W == InWindow(sales', ret'.args.user_id, ret'.args.start_date,
                            ret'.args.end_date) IN
             /\ ret'.kind = "return"
             /\ ret'.val.profit = ItemSum(sales_items', 1, W, "price")
                                    - ItemSum(sales_items', 1, W, "cost_price")
             /\ ret.kind = "return" => ret'.val.profit = ret.val.profit]_vars

\* The analytics of a user have been returned with a profit and no top
\* product: the products sold have left the catalog before the call.
W_C26 ==
    /\ ret.op = "get_sales_analytics" /\ ret.kind = "return"
    /\ local_products = {}
    /\ ret.val.top_products = <<>>
    /\ ret.val.profit > 0

\* C27: in every analytics result the paid and the unpaid sum add up to
\* the total of the window, and when that total is above 0 the two
\* percentages (in hundredths) add up to 100 within one hundredth.
CE_C27_PaidUnpaidPartition ==
    (ret.op = "get_sales_analytics" /\ ret.kind = "return") =>
       /\ ret.val.total_paid_sum + ret.val.total_unpaid_sum = ret.val.total_sales_sum
       /\ ret.val.total_sales_sum > 0 =>
             ret.val.paid_percentage + ret.val.unpaid_percentage \in 9999..10001

\* C28: the counter moves only when generate_order_id commits (the step
\* that takes a creation to its first insert), and then
\* by one, so that it stands at its seed plus the number of those commits;
\* after every step the order_id of each stored sale and receipt is one
\* built from a number between the seed (exclusive) and the counter, and
\* the id a commit of generate_order_id hands out is that of the new
\* counter value, which no stored row and no creation in progress holds.
C28_CounterBoundsOrderIds ==
    [][LET issued == { OrderIdOf(n) : n \in (Seed + 1)..last_number' } IN
          /\ \A r \in sales' \cup receipts' : r.order_id \in issued
          /\ IF \E p \in Procs : pc[p] = "idle" /\ pc'[p] = "ins_sale"
                THEN /\ last_number' = last_number + 1
                     /\ \A r \in sales \cup receipts :
                           r.order_id # OrderIdOf(last_number')
                     /\ \A q \in Procs : order_id[q] # OrderIdOf(last_number')
                     /\ \E q \in Procs : order_id'[q] = OrderIdOf(last_number')
                ELSE last_number' = last_number]_vars

\* Two numbers have been handed out and one sale row was ever inserted:
\* the stored sale is the second order, the first creation failed and left
\* the gap.
W_C28 ==
    /\ last_number = Seed + 2
    /\ sales_id_seq = 1
    /\ \A p \in Procs : pc[p] = "idle"
    /\ { r.order_id : r \in sales } = {OrderIdOf(Seed + 2)}
    /\ { r.order_id : r \in receipts } = {OrderIdOf(Seed + 2)}

\* C29: within one get_sales call the count was taken in the state the
\* page is read from (total_count is the number of the user's sales when
\* the page is read), and the sales of the page are still stored when
\* their items are read, so that the items attached are those the sales
\* had in that state.
CE_C29_EnvelopeOneState ==
    [][\A p \in Procs :
          /\ (pc[p] = "ls_page" /\ pc'[p] # "ls_page") =>
                seen[p].total_count
                   = Cardinality({ r \in sales : r.user_id = req[p].args.user_id })
          /\ (pc[p] = "ls_items" /\ pc'[p] # "ls_items") =>
                \A i \in 1..Len(seen[p].sales) : seen[p].sales[i] \in sales]_vars

\* C30: when confirm_payment has read a pending sale and its write runs
\* after a cancellation has set that sale to cancelled, the sale is not
\* paid afterwards; and
\* when the write makes confirm_payment return success, the sale is stored
\* with status paid.
CE_C30_ConfirmAgainstCancel ==
    [][\A p \in Procs :
          (pc[p] = "cp_write" /\ pc'[p] = "idle") =>
             /\ (/\ seen[p] = "pending"
                 /\ \E r \in RowsOf(sales, req[p].target) : r.status = "cancelled") =>
                   \A r \in RowsOf(sales', req[p].target) : r.status # "paid"
             /\ ret'.val = "True" =>
                   \E r \in RowsOf(sales', req[p].target) : r.status = "paid"]_vars

====
